---- MODULE Spec2Model ----
(***************************************************************************)
(* chrono_avif: every image below the working directory is converted to    *)
(* AVIF, named after its capture time, and the original is removed.        *)
(* The model follows src/src/main.rs: main fans process_image out over a   *)
(* rayon pool; every filesystem call of a worker is one step.              *)
(***************************************************************************)
EXTENDS Integers, Sequences, FiniteSets, TLC

VARIABLES image_files, existing, avif, originals, pc, datetime, counter,
          final_filename, snap, processed, deleted, lock_processed,
          lock_deleted, results, progress, metaRead, written, mainPc, summary

vars == <<image_files, existing, avif, originals, pc, datetime, counter,
          final_filename, snap, processed, deleted, lock_processed,
          lock_deleted, results, progress, metaRead, written, mainPc, summary>>

----------------------------------------------------------------------------
(* Bounds of the model *)

\* most files a scanned tree holds
NFiles == 2
\* threads of the rayon pool
NWorkers == 2

(* Program constant: the last collision suffix the allocator probes *)
MAX_COUNTER == 10000

None == -1
Free == 0
\* content of an output file whose write failed half way
Partial == 0

----------------------------------------------------------------------------
(* Time.  A DateTime<Local> is held as its UTC instant; the local wall      *)
(* clock reads instant + UtcOffset.  Two wall-clock readings do not map to  *)
(* one instant: GapNaive is skipped by a clock change, FoldNaive occurs     *)
(* twice.                                                                  *)

UtcOffset == 1
GapNaive == 4
FoldNaive == 5

\* chrono: Local.from_local_datetime(&naive_dt)
from_local_datetime(naive) ==
    IF naive = GapNaive THEN [kind |-> "None", instant |-> None]
    ELSE IF naive = FoldNaive THEN [kind |-> "Ambiguous", instant |-> None]
    ELSE [kind |-> "Single", instant |-> naive - UtcOffset]

\* chrono: DateTime<Local> read on the local wall clock
naive_local(instant) == instant + UtcOffset

\* NaiveDateTime::parse_from_str(s, "%Y:%m:%d %H:%M:%S"): a string is either
\* text in that pattern (wellformed, spelling the wall-clock value naive) or not
parse_from_str(s) ==
    IF s.wellformed THEN [ok |-> TRUE, naive |-> s.naive]
    ELSE [ok |-> FALSE, naive |-> None]

Ok(v) == [ok |-> TRUE, value |-> v]
Err == [ok |-> FALSE, value |-> None]

\* the for loop of get_exif_datetime over exif_data.entries, from entry i on
RECURSIVE exif_entries_from(_, _)
exif_entries_from(entries, i) ==
    IF i > Len(entries) THEN Err
    ELSE LET entry == entries[i]
             parsed == parse_from_str(entry.value_more_readable)
         IN IF entry.tag = "DateTimeOriginal" /\ parsed.ok
            THEN LET zoned == from_local_datetime(parsed.naive)
                 IN IF zoned.kind = "Single" THEN Ok(zoned.instant) ELSE Err
            ELSE exif_entries_from(entries, i + 1)

get_exif_datetime(file) ==
    IF ~file.exif.read THEN Err
    ELSE IF ~file.exif.parse THEN Err
    ELSE exif_entries_from(file.exif.entries, 1)

\* metadata.created().or_else(|_| metadata.modified())
MutModifiedFirst(meta) ==
    IF meta.modified # None THEN Ok(meta.modified)
    ELSE IF meta.created # None THEN Ok(meta.created)
    ELSE Err
system_time(meta) ==
    IF meta.created # None THEN Ok(meta.created)
    ELSE IF meta.modified # None THEN Ok(meta.modified)
    ELSE Err

\* get_image_datetime: the result, and whether fs::metadata was called
MutFilesystemFirst(file) ==
    IF file.meta.readable /\ system_time(file.meta).ok
    THEN [ok |-> TRUE, value |-> system_time(file.meta).value, meta |-> TRUE]
    ELSE LET exif == get_exif_datetime(file)
         IN [ok |-> exif.ok, value |-> exif.value, meta |-> TRUE]
get_image_datetime(file) ==
    LET exif == get_exif_datetime(file)
    IN IF exif.ok THEN [ok |-> TRUE, value |-> exif.value, meta |-> FALSE]
       ELSE IF ~file.meta.readable
            THEN [ok |-> FALSE, value |-> None, meta |-> TRUE]
            ELSE LET st == system_time(file.meta)
                 IN [ok |-> st.ok, value |-> st.value, meta |-> TRUE]

\* datetime.format("%Y年%m月%d日 %H-%M-%S"): the stem of the base file name
formatted_time(instant) == naive_local(instant)

----------------------------------------------------------------------------
(* Input files *)

DateTimeOriginal(naive) ==
    [tag |-> "DateTimeOriginal",
     value_more_readable |-> [wellformed |-> TRUE, naive |-> naive]]
Malformed ==
    [tag |-> "DateTimeOriginal",
     value_more_readable |-> [wellformed |-> FALSE, naive |-> None]]
OtherTag ==
    [tag |-> "Make", value_more_readable |-> [wellformed |-> FALSE, naive |-> None]]

Exif(entries) == [read |-> TRUE, parse |-> TRUE, entries |-> entries]
NoExif == [read |-> TRUE, parse |-> FALSE, entries |-> <<>>]
Unreadable == [read |-> FALSE, parse |-> FALSE, entries |-> <<>>]
Meta(created, modified) ==
    [readable |-> TRUE, created |-> created, modified |-> modified]
NoMeta == [readable |-> FALSE, created |-> None, modified |-> None]

\* the kinds of file a tree can hold, one per way the capture time resolves;
\* a file carries at most one DateTimeOriginal field
FileKinds ==
    << [dir |-> 1, exif |-> Exif(<<OtherTag, DateTimeOriginal(1)>>), meta |-> Meta(1, 1)],
       [dir |-> 1, exif |-> NoExif, meta |-> Meta(None, 0)],
       [dir |-> 1, exif |-> Exif(<<Malformed>>), meta |-> Meta(0, 2)],
       [dir |-> 2, exif |-> Exif(<<DateTimeOriginal(FoldNaive)>>), meta |-> Meta(0, 0)],
       [dir |-> 1, exif |-> Exif(<<DateTimeOriginal(GapNaive)>>), meta |-> Meta(None, None)],
       [dir |-> 1, exif |-> Unreadable, meta |-> NoMeta],
       [dir |-> 2, exif |-> Exif(<<OtherTag>>), meta |-> Meta(2, 0)] >>

NKinds == Len(FileKinds)

\* the .avif entries of stem 1 in directory 1 that exist before the run, as
\* runs <<lo, hi>> of collision suffixes (suffix 0 is the base name)
Prefills == { {}, {<<0, 0>>}, {<<0, 0>>, <<2, 2>>} }
\* directories that make the allocator probe to its limit
FullPrefills == { {<<0, MAX_COUNTER - 1>>}, {<<0, MAX_COUNTER>>} }

Files == 1 .. Len(image_files)
total == Len(image_files)

Path(dir, stem, n) == <<dir, stem, n>>

----------------------------------------------------------------------------
Init ==
    /\ \E n \in 0 .. NFiles :
         \E kinds \in [1 .. n -> 1 .. NKinds] :
            /\ \A i \in 1 .. n : \A j \in 1 .. n : i <= j => kinds[i] <= kinds[j]
            /\ image_files = [i \in 1 .. n |-> FileKinds[kinds[i]]]
            /\ \E pre \in Prefills \cup (IF n = 1 THEN FullPrefills ELSE {}) :
                 existing = {[dir |-> 1, stem |-> 1, lo |-> r[1], hi |-> r[2]] : r \in pre}
    /\ avif = <<>>
    /\ originals = DOMAIN image_files
    /\ pc = [f \in DOMAIN image_files |-> "queued"]
    /\ datetime = [f \in DOMAIN image_files |-> None]
    /\ counter = [f \in DOMAIN image_files |-> 0]
    /\ final_filename = [f \in DOMAIN image_files |-> None]
    /\ snap = [f \in DOMAIN image_files |-> {}]
    /\ processed = 0
    /\ deleted = 0
    /\ lock_processed = Free
    /\ lock_deleted = Free
    /\ results = [f \in DOMAIN image_files |-> [status |-> "pending", stage |-> "", path |-> FALSE]]
    /\ progress = <<>>
    /\ metaRead = {}
    /\ written = {}
    /\ mainPc = "scan"
    /\ summary = [converted |-> None, deleted |-> None, errors |-> None]


----------------------------------------------------------------------------
(* Helpers of the worker steps *)

\* the entries present before the run, which the program never removes
preexists(p) ==
    \E r \in existing : r.dir = p[1] /\ r.stem = p[2] /\ r.lo <= p[3] /\ p[3] <= r.hi

\* Path::exists
exists(p) == preexists(p) \/ p \in DOMAIN avif

\* the workers inside process_image
Active == {f \in Files : pc[f] \notin {"queued", "done"}}

\* the ? operator: a stage's error ends process_image, success moves on
MutPropagateIgnored(ok, next) == next
propagate(ok, next) == IF ok THEN next ELSE "done"

\* what process_image returns for file f
Failure(stage, path) == [status |-> "err", stage |-> stage, path |-> path]
Success == [status |-> "ok", stage |-> "", path |-> FALSE]

\* line 208: the loop gives up once the counter has passed the last suffix
MutExhaustedEarly(c) == c >= MAX_COUNTER
exhausted(c) == c > MAX_COUNTER

\* line 195: the first collision suffix
MutFirstCounterTwo == 1 + 1
first_counter == 1

\* parent_dir.join(name) for the candidate the allocator is at
candidate(f) ==
    Path(image_files[f].dir, formatted_time(datetime[f]), counter[f])

\* parent_dir.join(&final_filename)
MutOutputInFirstDir(f) ==
    Path(1, formatted_time(datetime[f]), final_filename[f])
output_path(f) ==
    Path(image_files[f].dir, formatted_time(datetime[f]), final_filename[f])

\* fs::write(output_path, bytes): the file is created or replaced
fs_write(p, content) ==
    [q \in DOMAIN avif \cup {p} |-> IF q = p THEN content ELSE avif[q]]

\* *count += 1
MutIncrementLost(c) == c
increment(c) == c + 1

\* Mutex::lock returns once no other guard of the mutex is alive
MutNoMutualExclusion(l) == TRUE
lock_free(l) == l = Free

\* a MutexGuard of f going out of scope: the mutex it holds is free again
MutGuardLeaked(l, f) == l
dropped(l, f) == IF l = f THEN Free ELSE l

----------------------------------------------------------------------------
(* main *)

\* lines 41-47: nothing found, main returns at once
MainEmpty ==
    /\ mainPc = "scan"
    /\ total = 0
    /\ mainPc' = "done"
    /\ UNCHANGED <<image_files, existing, avif, originals, pc, datetime, counter,
                   final_filename, snap, processed, deleted, lock_processed,
                   lock_deleted, results, progress, metaRead, written, summary>>

\* lines 49-55: the counters are created and the files handed to the pool
MainFanOut ==
    /\ mainPc = "scan"
    /\ total # 0
    /\ mainPc' = "par"
    /\ UNCHANGED <<image_files, existing, avif, originals, pc, datetime, counter,
                   final_filename, snap, processed, deleted, lock_processed,
                   lock_deleted, results, progress, metaRead, written, summary>>

\* line 59: collect() returns once every closure of the par_iter has returned
MutCollectFirstResult == \E f \in Files : pc[f] = "done"
collected == \A f \in Files : pc[f] = "done"

\* lines 59-76: collect() has every result; errors are filtered, deleted is read
MainSummary ==
    /\ mainPc = "par"
    /\ collected
    /\ lock_deleted = Free
    /\ LET errors == {f \in Files : results[f].status = "err"}
       IN summary' = [converted |-> total - Cardinality(errors),
                      deleted |-> deleted,
                      errors |-> Cardinality(errors)]
    /\ mainPc' = "done"
    /\ UNCHANGED <<image_files, existing, avif, originals, pc, datetime, counter,
                   final_filename, snap, processed, deleted, lock_processed,
                   lock_deleted, results, progress, metaRead, written>>

----------------------------------------------------------------------------
(* process_image, one step per filesystem call or lock *)

\* lines 86-98: a pool thread takes file f and resolves its capture time
ResolveTime(f) ==
    /\ mainPc = "par"
    /\ pc[f] = "queued"
    /\ Cardinality(Active) < NWorkers
    /\ LET r == get_image_datetime(image_files[f])
       IN /\ datetime' = [datetime EXCEPT ![f] = r.value]
          /\ metaRead' = IF r.meta THEN metaRead \cup {f} ELSE metaRead
          /\ pc' = [pc EXCEPT ![f] = propagate(r.ok, "probe")]
          /\ results' = IF r.ok THEN results
                        ELSE [results EXCEPT ![f] = Failure("timestamp", TRUE)]
          /\ snap' = IF r.ok THEN [snap EXCEPT ![f] = DOMAIN avif] ELSE snap
    /\ UNCHANGED <<image_files, existing, avif, originals, counter, final_filename,
                   processed, deleted, lock_processed, lock_deleted, progress,
                   written, mainPc, summary>>

\* lines 186-211: generate_unique_filename tests one candidate name
Probe(f) ==
    /\ pc[f] = "probe"
    /\ IF ~exists(candidate(f))
       THEN /\ final_filename' = [final_filename EXCEPT ![f] = counter[f]]
            /\ pc' = [pc EXCEPT ![f] = "convert"]
            /\ snap' = [snap EXCEPT ![f] = {}]
            /\ UNCHANGED <<counter, results>>
       ELSE LET c == IF counter[f] = 0 THEN first_counter ELSE counter[f] + 1
                full == counter[f] # 0 /\ exhausted(c)
            IN /\ counter' = [counter EXCEPT ![f] = IF full THEN counter[f] ELSE c]
               /\ pc' = [pc EXCEPT ![f] = propagate(~full, "probe")]
               /\ results' = IF full
                             THEN [results EXCEPT ![f] = Failure("naming", FALSE)]
                             ELSE results
               /\ snap' = IF full THEN [snap EXCEPT ![f] = {}] ELSE snap
               /\ UNCHANGED final_filename
    /\ UNCHANGED <<image_files, existing, avif, originals, datetime, processed,
                   deleted, lock_processed, lock_deleted, progress, metaRead,
                   written, mainPc, summary>>

\* lines 109-110 and 215-253: convert_to_avif decodes, encodes and writes
Convert(f) ==
    /\ pc[f] = "convert"
    /\ \E outcome \in {"decode", "encode", "write", "partial", "ok"} :
         /\ avif' = CASE outcome = "ok" -> fs_write(output_path(f), f)
                      [] outcome = "partial" -> fs_write(output_path(f), Partial)
                      [] OTHER -> avif
         /\ written' = IF outcome = "ok" THEN written \cup {f} ELSE written
         /\ pc' = [pc EXCEPT ![f] = propagate(outcome = "ok", "delete")]
         /\ results' = IF outcome = "ok" THEN results
                       ELSE [results EXCEPT ![f] =
                               Failure(IF outcome = "partial" THEN "write" ELSE outcome, TRUE)]
    /\ UNCHANGED <<image_files, existing, originals, datetime, counter,
                   final_filename, snap, processed, deleted, lock_processed,
                   lock_deleted, progress, metaRead, mainPc, summary>>

\* lines 113-114: fs::remove_file(image_path)
Delete(f) ==
    /\ pc[f] = "delete"
    /\ \E ok \in BOOLEAN :
         /\ originals' = IF ok THEN originals \ {f} ELSE originals
         /\ pc' = [pc EXCEPT ![f] = propagate(ok, "lock_processed")]
         /\ results' = IF ok THEN results
                       ELSE [results EXCEPT ![f] = Failure("delete", TRUE)]
    /\ UNCHANGED <<image_files, existing, avif, datetime, counter, final_filename,
                   snap, processed, deleted, lock_processed, lock_deleted, progress,
                   metaRead, written, mainPc, summary>>

\* lines 117-118: processed.lock(), *count += 1
LockProcessed(f) ==
    /\ pc[f] = "lock_processed"
    /\ lock_free(lock_processed)
    /\ lock_processed' = f
    /\ processed' = increment(processed)
    /\ pc' = [pc EXCEPT ![f] = "lock_deleted"]
    /\ UNCHANGED <<image_files, existing, avif, originals, datetime, counter,
                   final_filename, snap, deleted, lock_deleted, results, progress,
                   metaRead, written, mainPc, summary>>

\* lines 119-120: deleted.lock(), *del_count += 1
LockDeleted(f) ==
    /\ pc[f] = "lock_deleted"
    /\ lock_free(lock_deleted)
    /\ lock_deleted' = f
    /\ deleted' = increment(deleted)
    /\ pc' = [pc EXCEPT ![f] = "print"]
    /\ UNCHANGED <<image_files, existing, avif, originals, datetime, counter,
                   final_filename, snap, processed, lock_processed, results,
                   progress, metaRead, written, mainPc, summary>>

\* lines 122-128: the progress line, printed through the guard count
PrintProgress(f) ==
    /\ pc[f] = "print"
    /\ progress' = Append(progress, [done |-> processed, file |-> f,
                                     name |-> final_filename[f]])
    /\ pc' = [pc EXCEPT ![f] = "return"]
    /\ UNCHANGED <<image_files, existing, avif, originals, datetime, counter,
                   final_filename, snap, processed, deleted, lock_processed,
                   lock_deleted, results, metaRead, written, mainPc, summary>>

\* lines 130-131: Ok(()) and the two guards are dropped
Return(f) ==
    /\ pc[f] = "return"
    /\ lock_deleted' = dropped(lock_deleted, f)
    /\ lock_processed' = dropped(lock_processed, f)
    /\ results' = [results EXCEPT ![f] = Success]
    /\ pc' = [pc EXCEPT ![f] = "done"]
    /\ UNCHANGED <<image_files, existing, avif, originals, datetime, counter,
                   final_filename, snap, processed, deleted, progress, metaRead,
                   written, mainPc, summary>>

Next ==
    \/ MainEmpty
    \/ MainFanOut
    \/ MainSummary
    \/ \E f \in Files : ResolveTime(f)
    \/ \E f \in Files : Probe(f)
    \/ \E f \in Files : Convert(f)
    \/ \E f \in Files : Delete(f)
    \/ \E f \in Files : LockProcessed(f)
    \/ \E f \in Files : LockDeleted(f)
    \/ \E f \in Files : PrintProgress(f)
    \/ \E f \in Files : Return(f)

Spec == Init /\ [][Next]_vars

\* every enabled step is eventually taken: pool threads and main keep running
FairSpec == Spec /\ WF_vars(Next)

----------------------------------------------------------------------------
(* Derived notions used by the properties *)

Failed == {f \in Files : results[f].status = "err"}
Succeeded == {f \in Files : results[f].status = "ok"}
\* files whose pipeline holds or has passed the increment of each counter
CountedProcessed ==
    {f \in Files : pc[f] \in {"lock_deleted", "print", "return"}} \cup Succeeded
CountedDeleted == {f \in Files : pc[f] \in {"print", "return"}} \cup Succeeded
\* output files that this run created
Created == DOMAIN avif
Removed == Files \ originals
SameTarget(f, g) ==
    /\ image_files[f].dir = image_files[g].dir
    /\ datetime[f] = datetime[g]

----------------------------------------------------------------------------
(* C1: files of one directory with the same capture time get pairwise      *)
(* distinct names under every interleaving, so no two completed writes     *)
(* have the same output path.                                              *)
C1_DistinctOutputs ==
    \A f \in written : \A g \in written :
        (f # g /\ SameTarget(f, g)) => output_path(f) # output_path(g)

(* C2: no image is lost: for every discovered file either its original     *)
(* still exists or an output file holds its converted content.             *)
C2_NoImageLost ==
    \A f \in Files : f \in originals \/ (\E p \in DOMAIN avif : avif[p] = f)

(* C3 as stated: once a file's pipeline has finished, its original has     *)
(* been deleted if and only if its output was fully written.               *)
C3_DeletedIffWritten ==
    \A f \in Files : pc[f] = "done" => (f \notin originals <=> f \in written)

(* C3 amended: an original is never removed without a completed write, and *)
(* once the pipeline has finished a completed write has been followed by   *)
(* the removal of the original unless remove_file itself failed, in which  *)
(* case the file's error is the delete error and the original remains.     *)
C3_DeletedOnlyIfWritten ==
    \A f \in Files :
        /\ f \notin originals => f \in written
        /\ (pc[f] = "done" /\ f \in written) =>
              (f \in originals <=> results[f] = Failure("delete", TRUE))
C3_Witness ==
    \E f \in Files : \E g \in Files :
        /\ pc[f] = "done" /\ f \in written /\ f \notin originals
        /\ pc[g] = "done" /\ g \in written /\ g \in originals

(* C4: when a file's pipeline fails at any stage, its original still       *)
(* exists, neither counter was incremented for it, and the collected       *)
(* errors hold exactly one entry for it.                                   *)
C4_FailureKeepsOriginal ==
    /\ \A f \in Failed :
          /\ pc[f] = "done"
          /\ f \in originals
          /\ f \notin CountedProcessed \cup CountedDeleted
    /\ processed = Cardinality(CountedProcessed \ Failed)
    /\ deleted = Cardinality(CountedDeleted \ Failed)
    /\ (mainPc = "done" /\ total # 0) => summary.errors = Cardinality(Failed)
C4_Witness ==
    /\ mainPc = "done"
    /\ {results[f].stage : f \in Failed} = {"timestamp", "write"}

(* C5: every successful file increments processed once and deleted once;   *)
(* when all workers have finished, processed = deleted = number of Ok      *)
(* results = total - number of errors, the count the summary prints.       *)
C5_CountersExact ==
    /\ processed = Cardinality(CountedProcessed)
    /\ deleted = Cardinality(CountedDeleted)
    /\ (\A f \in Files : pc[f] = "done") =>
          /\ processed = Cardinality(Succeeded)
          /\ deleted = processed
          /\ processed = total - Cardinality(Failed)
    /\ (mainPc = "done" /\ total # 0) =>
          /\ summary.converted = processed
          /\ summary.deleted = deleted
C5_Witness ==
    /\ mainPc = "done"
    /\ processed = 2
    /\ deleted = 2


(* C6: the orchestrator never stops early: whatever the other files do,    *)
(* every discovered file's pipeline reaches exactly one terminal outcome,  *)
(* the results hold one entry per file, and the run ends only after all of *)
(* them are in (and, the pool being fair, it does end).                    *)
C6_RunsEveryFile ==
    /\ <>(mainPc = "done")
    /\ [](mainPc = "done" =>
            \A f \in Files : pc[f] = "done" /\ results[f].status # "pending")
    /\ [][\A f \in Files :
            results[f].status # "pending" => results'[f] = results[f]]_vars
C6_Witness ==
    /\ mainPc = "done"
    /\ \E f \in Files : \E g \in Files :
         /\ results[f].status = "err" /\ results[f].stage = "decode"
         /\ results[g].status = "ok"

(* C7: with no concurrent change to the directory, generate_unique_filename *)
(* returns a name absent from the directory: the base name when it is      *)
(* absent, otherwise suffix (n) for the smallest n >= 1 that is absent,    *)
(* the base name and (1) .. (n-1) all being present.                       *)
C7_SmallestFreeName ==
    [][\A f \in Files :
        (pc[f] = "probe" /\ pc'[f] = "convert" /\ snap[f] = DOMAIN avif) =>
            LET dir == image_files[f].dir
                stem == formatted_time(datetime[f])
                n == final_filename'[f]
            IN /\ n \in 0 .. MAX_COUNTER
               /\ ~exists(Path(dir, stem, n))
               /\ \A m \in 0 .. (n - 1) : exists(Path(dir, stem, m))]_vars
C7_Witness ==
    \E f \in Files :
        /\ pc[f] = "convert"
        /\ final_filename[f] = 1
        /\ avif = <<>>
        /\ preexists(Path(image_files[f].dir, formatted_time(datetime[f]), 2))

(* C8: generate_unique_filename terminates: every probe that finds its     *)
(* candidate taken moves to the next suffix and never past (10000); the    *)
(* call fails exactly when the base name and every suffix (1) .. (10000)   *)
(* exist, and still returns (10000) when that one is free.                 *)
C8_ExhaustedAtLimit ==
    /\ [](\A f \in Files :
            /\ counter[f] \in 0 .. MAX_COUNTER
            /\ final_filename[f] = None \/ final_filename[f] \in 0 .. MAX_COUNTER)
    /\ [][\A f \in Files :
            LET dir == image_files[f].dir
                stem == formatted_time(datetime[f])
            IN /\ (pc[f] = "probe" /\ pc'[f] = "probe" /\ counter'[f] # counter[f])
                    => counter'[f] = counter[f] + 1
               /\ (pc[f] = "probe" /\ pc'[f] # "probe") =>
                    /\ (pc'[f] = "done" <=>
                          \A m \in 0 .. MAX_COUNTER : exists(Path(dir, stem, m)))
                    /\ pc'[f] = "done" => results'[f] = Failure("naming", FALSE)
                    /\ (~exists(Path(dir, stem, MAX_COUNTER))
                        /\ \A m \in 0 .. (MAX_COUNTER - 1) : exists(Path(dir, stem, m)))
                         => final_filename'[f] = MAX_COUNTER]_vars
C8_Witness ==
    /\ \E f \in Files : results[f] = Failure("naming", FALSE)
    /\ \A m \in 0 .. MAX_COUNTER : preexists(Path(1, 1, m))

(* C9: the stages of one file run in the order resolve, allocate, write,   *)
(* delete, count, each only after the one before succeeded; so the deleted *)
(* counter never exceeds the originals removed, which never exceed the     *)
(* completed writes.                                                       *)
C9_StageOrder ==
    /\ \A f \in Files :
         /\ pc[f] \in {"probe", "convert"} \/ f \in written => datetime[f] # None
         /\ pc[f] = "convert" \/ f \in written => final_filename[f] # None
         /\ pc[f] \in {"queued", "probe", "convert"} => f \notin written
         /\ pc[f] \in {"queued", "probe", "convert", "delete"} => f \in originals
         /\ f \in Removed => f \in written
         /\ f \in CountedProcessed => f \in Removed
         /\ f \in CountedDeleted => f \in CountedProcessed
    /\ deleted <= processed
    /\ processed <= Cardinality(Removed)
    /\ Cardinality(Removed) <= Cardinality(written)
C9_Witness ==
    /\ deleted = 1
    /\ Cardinality(Removed) = 2
    /\ Cardinality(written) = 2

(* C10: a file whose DateTimeOriginal field is present, parses under       *)
(* YYYY:MM:DD HH:MM:SS and maps to a single local instant resolves to      *)
(* exactly that value zoned to local time, and its filesystem metadata is  *)
(* never read.                                                             *)
ValidDateTimeOriginal(file, naive) ==
    /\ file.exif.read
    /\ file.exif.parse
    /\ \E i \in DOMAIN file.exif.entries :
         /\ file.exif.entries[i].tag = "DateTimeOriginal"
         /\ file.exif.entries[i].value_more_readable = [wellformed |-> TRUE, naive |-> naive]
    /\ naive \notin {GapNaive, FoldNaive}
C10_ExifTimeWins ==
    \A f \in Files : \A naive \in 0 .. FoldNaive :
        (pc[f] # "queued" /\ ValidDateTimeOriginal(image_files[f], naive)) =>
            /\ results[f].stage # "timestamp"
            /\ naive_local(datetime[f]) = naive
            /\ f \notin metaRead
C10_Witness ==
    \E f \in Files :
        /\ ValidDateTimeOriginal(image_files[f], 1)
        /\ system_time(image_files[f].meta) = Ok(1)
        /\ results[f].status = "ok"


(* C11: on any failure of the embedded-metadata step (file unreadable,     *)
(* container unparseable, DateTimeOriginal missing or malformed, local     *)
(* time ambiguous or nonexistent) get_image_datetime reads the filesystem  *)
(* metadata and returns the creation time, or the modification time when   *)
(* there is no creation time; it fails only when the metadata or both      *)
(* times are unavailable.                                                  *)
EmbeddedTimeUnusable(file) ==
    \A naive \in 0 .. FoldNaive : ~ValidDateTimeOriginal(file, naive)
C11_FallbackToFileTime ==
    \A f \in Files :
        (pc[f] # "queued" /\ EmbeddedTimeUnusable(image_files[f])) =>
            LET m == image_files[f].meta
                failed == results[f] = Failure("timestamp", TRUE)
            IN /\ f \in metaRead
               /\ (m.readable /\ m.created # None) =>
                     (~failed /\ datetime[f] = m.created)
               /\ (m.readable /\ m.created = None /\ m.modified # None) =>
                     (~failed /\ datetime[f] = m.modified)
               /\ failed <=> (~m.readable \/ (m.created = None /\ m.modified = None))
C11_Witness ==
    \E f \in Files : \E g \in Files :
        /\ image_files[f].exif = Exif(<<Malformed>>)
        /\ image_files[f].meta = Meta(0, 2)
        /\ datetime[f] = 0
        /\ image_files[g].exif = NoExif
        /\ image_files[g].meta = Meta(None, 0)
        /\ datetime[g] = 0
        /\ results[f].status = "ok"
        /\ results[g].status = "ok"


(* C12: every error recorded for a file, whichever stage produced it,      *)
(* carries the offending file's path and the stage at which it occurred.   *)
C12_ErrorsCarryPathAndStage ==
    \A f \in Failed :
        /\ results[f].path
        /\ results[f].stage \in
             {"timestamp", "naming", "decode", "encode", "write", "delete"}

(* C13: a worker holds the counter locks only for the increments: none is  *)
(* held while it resolves, allocates, transcodes or deletes, and both are  *)
(* released before its progress record is emitted.                         *)
Holds(f) == {l \in {"processed", "deleted"} :
               \/ l = "processed" /\ lock_processed = f
               \/ l = "deleted" /\ lock_deleted = f}
C13_LocksOnlyForIncrements ==
    \A f \in Files :
        /\ pc[f] \in {"queued", "probe", "convert", "delete", "lock_processed", "done"}
             => Holds(f) = {}
        /\ pc[f] = "return" => Holds(f) = {}


(* C14: the two counter mutexes never deadlock: a worker takes the deleted *)
(* lock only while it holds the processed lock, holds neither once         *)
(* process_image has returned, and under fair scheduling every worker that *)
(* asks for the processed lock obtains both locks and finishes: a worker   *)
(* leaves the locking code only forward, to a successful return, and in    *)
(* the end no worker is left inside it.                                    *)
InLocking(f) == pc[f] \in {"lock_processed", "lock_deleted", "print", "return"}
C14_LocksNeverDeadlock ==
    /\ [](\A f \in Files :
            /\ lock_deleted = f => lock_processed = f
            /\ pc[f] = "lock_deleted" => Holds(f) = {"processed"}
            /\ pc[f] \in {"print", "return"} => Holds(f) = {"processed", "deleted"}
            /\ pc[f] = "done" => Holds(f) = {})
    /\ [][\A f \in Files :
            /\ (pc[f] = "lock_processed" /\ pc'[f] # pc[f]) =>
                  (pc'[f] = "lock_deleted" /\ lock_processed' = f)
            /\ (pc[f] = "lock_deleted" /\ pc'[f] # pc[f]) =>
                  (pc'[f] = "print" /\ lock_deleted' = f)
            /\ (pc[f] = "print" /\ pc'[f] # pc[f]) => pc'[f] = "return"
            /\ (pc[f] = "return" /\ pc'[f] # pc[f]) =>
                  (pc'[f] = "done" /\ results'[f] = Success)]_vars
    /\ <>[](\A f \in Files : ~InLocking(f))
C14_Witness ==
    \E f \in Files : \E g \in Files :
        /\ f # g
        /\ pc[g] = "lock_processed"
        /\ pc[f] = "print"
        /\ Holds(f) = {"processed", "deleted"}

(* C15: in a run with S successful files the progress records carry the    *)
(* done values 1, 2, ..., S, each once and in the order of emission, under *)
(* every interleaving; failed files emit no record.                        *)
C15_ProgressCountsInOrder ==
    /\ \A i \in DOMAIN progress : progress[i].done = i
    /\ \A i \in DOMAIN progress : \A j \in DOMAIN progress :
         i # j => progress[i].file # progress[j].file
    /\ {progress[i].file : i \in DOMAIN progress}
         = {f \in Files : pc[f] = "return"} \cup Succeeded
    /\ collected => Len(progress) = Cardinality(Succeeded)
C15_Witness ==
    /\ Len(progress) = 2
    /\ progress[1].file = 2
    /\ progress[2].file = 1
    /\ mainPc = "done"

(* C16: the pipeline of file f changes the filesystem only by writing one  *)
(* .avif path in f's own directory and by removing f itself: no other      *)
(* original is removed, and a pipeline that fails at the timestamp or the  *)
(* naming stage leaves the directories as they were.                       *)
Changed == {p \in DOMAIN avif' : p \notin DOMAIN avif \/ avif'[p] # avif[p]}
C16_OnlyOwnFiles ==
    [][/\ existing' = existing
       /\ DOMAIN avif \subseteq DOMAIN avif'
       /\ originals' \subseteq originals
       /\ Cardinality(Changed) + Cardinality(originals \ originals') <= 1
       /\ \A p \in Changed : \E f \in Files :
            /\ pc[f] = "convert" /\ pc'[f] # "convert"
            /\ p[1] = image_files[f].dir
            /\ p[2] = formatted_time(datetime[f])
            /\ p[3] = final_filename[f]
       /\ \A g \in originals \ originals' :
            pc[g] = "delete" /\ pc'[g] = "lock_processed"
       /\ \A f \in Files :
            (results[f].status = "pending"
             /\ results'[f].stage \in {"timestamp", "naming"})
               => (avif' = avif /\ originals' = originals)
       /\ \A f \in Files :
            results'[f].stage \in {"timestamp", "naming"} =>
               (f \in originals' /\ f \notin written'
                /\ \A p \in DOMAIN avif' : avif'[p] # f)]_vars
C16_Witness ==
    \E f \in Files : \E g \in Files :
        /\ image_files[f].dir = 2
        /\ f \in written /\ f \notin originals
        /\ avif[output_path(f)] = f
        /\ image_files[g].dir = 1
        /\ results[g] = Failure("timestamp", TRUE)
        /\ g \in originals

====
